---- MODULE Spec2Model ----
(***************************************************************************)
(* cocomerge: the dataset-merge reconciliation engine of cococrawl.        *)
(*                                                                         *)
(* The model follows src/src/bin/cocomerge.rs main(): every input file is  *)
(* loaded, then the files are reconciled one after the other, and within   *)
(* a file categories, licenses, images and annotations in that order.      *)
(* The entities of a file are drawn one by one when the loop reaches them; *)
(* a loop over the categories, licenses or images of a file ends when an   *)
(* entity of a later loop of the same file is drawn.                       *)
(*                                                                         *)
(* HashSet<CocoCategory> and HashSet<CocoLicense> are modelled by what the *)
(* std HashSet does with the Hash and PartialEq implementations of lib.rs: *)
(* an entry is found by a probe when both the hashes and the values        *)
(* compare equal.  The derived Hash feeds every field of the struct to the *)
(* hasher; distinct field tuples are taken to hash differently.            *)
(*                                                                         *)
(* cococount (src/src/bin/cococount.rs) and cocosplit                      *)
(* (src/src/bin/cocosplit.rs) are separate programs with a state of their  *)
(* own and a specification each; a run of one program leaves the variables *)
(* of the others as they are.                                              *)
(***************************************************************************)
EXTENDS Integers, Sequences, FiniteSets, TLC

\* ------------------------------------------------------------------ bounds
MaxFiles == 2
MaxEntities == 3
MaxSegments == 1
MaxCategoryId == 1
MaxLicenseId == 1
MaxImageId == 1
MaxAnnotationId == 1
MaxSharedEntities == 6
MaxCountEntities == 2
MaxSplitEntities == 4

CategoryIds == 0..MaxCategoryId
LicenseIds == 0..MaxLicenseId
ImageIds == 0..MaxImageId
AnnotationIds == 0..MaxAnnotationId

\* ------------------------------------------------------- Option<T>, HashMap
None == << >>
Some(x) == << x >>
IsSome(o) == Len(o) = 1
Unwrap(o) == o[1]

EmptyMap == [k \in {} |-> 0]
MapInsert(m, k, v) == [x \in (DOMAIN m) \cup {k} |-> IF x = k THEN v ELSE m[x]]
MapContains(m, k) == k \in DOMAIN m

Range(s) == {s[i] : i \in DOMAIN s}

\* ------------------------------------------------------------- categories
ObjectDetectionCategory(id, name, supercategory) ==
    [variant |-> "ObjectDetection", id |-> id, name |-> name,
     supercategory |-> supercategory, keypoints |-> << >>, skeleton |-> << >>,
     isthing |-> FALSE, color |-> << >>]

KeypointDetectionCategory(id, name, supercategory, keypoints, skeleton) ==
    [variant |-> "KeypointDetection", id |-> id, name |-> name,
     supercategory |-> supercategory, keypoints |-> keypoints,
     skeleton |-> skeleton, isthing |-> FALSE, color |-> << >>]

PanopticSegmentationCategory(id, name, supercategory, isthing, color) ==
    [variant |-> "PanopticSegmentation", id |-> id, name |-> name,
     supercategory |-> supercategory, keypoints |-> << >>, skeleton |-> << >>,
     isthing |-> isthing, color |-> color]

\* The categories an input file may declare.
Categories ==
    UNION {{ObjectDetectionCategory(id, "person", "human"),
            KeypointDetectionCategory(id, "person", "human", <<"nose">>, << >>),
            PanopticSegmentationCategory(id, "person", "human", TRUE, <<0, 0, 0>>)}
           : id \in CategoryIds}

\* impl PartialEq for CocoObjectDetectionCategory
ObjectDetectionCategoryEq(a, b) ==
    a.supercategory = b.supercategory /\ a.name = b.name

\* impl PartialEq for CocoKeypointDetectionCategory
KeypointDetectionCategoryEq(a, b) ==
    /\ a.supercategory = b.supercategory /\ a.name = b.name
    /\ a.keypoints = b.keypoints
    /\ a.skeleton = b.skeleton

\* impl PartialEq for CocoPanopticSegmentationCategory
PanopticSegmentationCategoryEq(a, b) ==
    /\ a.supercategory = b.supercategory /\ a.name = b.name
    /\ a.isthing = b.isthing
    /\ a.color = b.color

\* derive(PartialEq) on enum CocoCategory: same variant, then the variant's eq
CategoryEq(a, b) ==
    /\ a.variant = b.variant
    /\ CASE a.variant = "ObjectDetection" -> ObjectDetectionCategoryEq(a, b)
         [] a.variant = "KeypointDetection" -> KeypointDetectionCategoryEq(a, b)
         [] a.variant = "PanopticSegmentation" -> PanopticSegmentationCategoryEq(a, b)

\* derive(Hash) on the enum and on the three structs: the discriminant and
\* then every field of the struct in declaration order, id first.
CategoryHash(c) ==
    <<c.variant, c.id, c.name, c.supercategory, c.keypoints, c.skeleton,
      c.isthing, c.color>>

\* HashSet<CocoCategory>::get: the entries with the probe's hash that
\* compare equal to the probe (at most one).
CategorySetGet(set, probe) ==
    {e \in set : CategoryHash(e) = CategoryHash(probe) /\ CategoryEq(e, probe)}

\* HashSet<CocoCategory>::insert: no effect when get finds an entry.
CategorySetInsert(set, c) ==
    IF CategorySetGet(set, c) # {} THEN set ELSE set \cup {c}

\* --------------------------------------------------------------- licenses
License(id, name, url) == [id |-> id, name |-> name, url |-> url]

Licenses ==
    UNION {{License(id, "MIT", "http://mit"), License(id, "CC", "http://cc")}
           : id \in LicenseIds}

\* impl PartialEq for CocoLicense
LicenseEq(a, b) == a.name = b.name /\ a.url = b.url

\* derive(Hash) on CocoLicense: id, name, url
LicenseHash(l) == <<l.id, l.name, l.url>>

LicenseSetGet(set, probe) ==
    {e \in set : LicenseHash(e) = LicenseHash(probe) /\ LicenseEq(e, probe)}

LicenseSetInsert(set, l) ==
    IF LicenseSetGet(set, l) # {} THEN set ELSE set \cup {l}

\* ----------------------------------------------------------------- images
Image(id, license) == [id |-> id, license |-> license]

\* The images an input file may hold: license is Option<i32>.
Images ==
    {Image(id, lic) : id \in ImageIds,
                      lic \in {None} \cup {Some(l) : l \in LicenseIds}}

\* ------------------------------------------------------------ annotations
PanopticSegmentInfo(id, category_id) == [id |-> id, category_id |-> category_id]

ObjectDetectionAnnotation(id, image_id, category_id) ==
    [variant |-> "ObjectDetection", id |-> Some(id), image_id |-> image_id,
     category_id |-> Some(category_id), segments_info |-> << >>]

KeypointDetectionAnnotation(id, image_id, category_id) ==
    [variant |-> "KeypointDetection", id |-> Some(id), image_id |-> image_id,
     category_id |-> Some(category_id), segments_info |-> << >>]

DensePoseAnnotation(id, image_id, category_id) ==
    [variant |-> "DensePose", id |-> Some(id), image_id |-> image_id,
     category_id |-> Some(category_id), segments_info |-> << >>]

ImageCaptioningAnnotation(id, image_id) ==
    [variant |-> "ImageCaptioning", id |-> Some(id), image_id |-> image_id,
     category_id |-> None, segments_info |-> << >>]

PanopticSegmentationAnnotation(image_id, segments_info) ==
    [variant |-> "PanopticSegmentation", id |-> None, image_id |-> image_id,
     category_id |-> None, segments_info |-> segments_info]

Segments == {PanopticSegmentInfo(id, c) : id \in AnnotationIds, c \in CategoryIds}

SegmentLists == UNION {[1..n -> Segments] : n \in 0..MaxSegments}

\* The annotations an input file may hold.
Annotations ==
    UNION {{ObjectDetectionAnnotation(id, img, c),
            KeypointDetectionAnnotation(id, img, c),
            DensePoseAnnotation(id, img, c),
            ImageCaptioningAnnotation(id, img)}
           : id \in AnnotationIds, img \in ImageIds, c \in CategoryIds}
    \cup {PanopticSegmentationAnnotation(img, segs)
           : img \in ImageIds, segs \in SegmentLists}

\* ------------------------------------------------------------------ state
VARIABLES
    pc,                        \* position of main()
    failure,                   \* the message of the expect that panicked:
                               \* its kind and the values formatted into it;
                               \* <<"none">> before
    num_files,                 \* args.coco_files.len(), recorded when the loop
                               \* over coco_files ends
    reassign_clashing_ids,     \* args.reassign_clashing_ids
    file_index,                \* index of the file being reconciled (1-based)
    coco_files,                \* per file: the categories, licenses and images
                               \* consumed so far
    entities_read,             \* number of entities consumed over all files
    category_set, category_seen_ids, next_unseen_category_id, category_id_remap,
    license_set, license_seen_ids, next_unseen_license_id, license_id_remap,
    images, seen_image_ids, next_unseen_image_id, image_id_remap,
    annotations, seen_annotation_ids, next_unseen_annotation_id,
    warnings,                  \* eprintln! lines: <<file, image id>>
    merged_file,               \* Option<CocoFile> written to output_path
    images_src,                \* for images[i]: the file and the position in
                               \* the file's images it came from
    annotations_src,           \* for annotations[i]: the file it came from and
                               \* the annotation as it was in that file
    annotations_dropped,       \* the annotations read and discarded: the file
                               \* each was in and the annotation
    count_pc,                  \* cococount: position of main()
    count_coco_file,           \* cococount: the content of args.coco_file
    stdout,                    \* cococount: the numbers printed, by label
    split_pc,                  \* cocosplit: position of main()
    split_failure,             \* cocosplit: the expect that panicked
    split_args,                \* cocosplit: args.count, args.offset,
                               \* args.shuffle, args.annotated_only
    split_coco_file,           \* cocosplit: the content of args.coco_file
    blacklist_files,           \* cocosplit: per file of args.blacklist_file,
                               \* the ids of its images
    output_file,               \* cocosplit: args.output on disk: "none",
                               \* "created" (empty) or "written"
    blacklisted_image_ids,
    id_map_entries,
    output_coco_file           \* cocosplit: Option<CocoFile> written

category_vars ==
    <<category_set, category_seen_ids, next_unseen_category_id, category_id_remap>>
license_vars ==
    <<license_set, license_seen_ids, next_unseen_license_id, license_id_remap>>
image_vars ==
    <<images, seen_image_ids, next_unseen_image_id, image_id_remap, warnings,
      images_src>>
annotation_vars ==
    <<annotations, seen_annotation_ids, next_unseen_annotation_id, annotations_src,
      annotations_dropped>>
args_vars == <<reassign_clashing_ids>>
count_vars == <<count_pc, count_coco_file, stdout>>
split_vars ==
    <<split_pc, split_failure, split_args, split_coco_file, blacklist_files,
      output_file, blacklisted_image_ids, id_map_entries, output_coco_file>>
other_programs == <<count_vars, split_vars>>

merge_vars ==
    <<pc, failure, args_vars, num_files, file_index, coco_files, entities_read,
      category_vars, license_vars, image_vars, annotation_vars, merged_file>>

vars == <<merge_vars, other_programs>>

\* The loops of one iteration over coco_files, in program order.
Phase(p) ==
    CASE p = "categories" -> 1 [] p = "licenses" -> 2 [] p = "images" -> 3
      [] p = "annotations" -> 4 [] OTHER -> 0

\* The loop named at is running or still ahead in the file being reconciled.
Reaches(at) == Phase(pc) >= 1 /\ Phase(pc) <= Phase(at)

EmptyFile == [categories |-> << >>, licenses |-> << >>, images |-> << >>]

\* The locals of main() as they are created, lines 44 to 71.
InitLocals ==
    /\ num_files = 0
    /\ file_index = 0
    /\ coco_files = << >>
    /\ entities_read = 0
    /\ category_set = {} /\ category_seen_ids = {}
    /\ next_unseen_category_id = 0 /\ category_id_remap = EmptyMap
    /\ license_set = {} /\ license_seen_ids = {}
    /\ next_unseen_license_id = 0 /\ license_id_remap = EmptyMap
    /\ images = << >> /\ seen_image_ids = {}
    /\ next_unseen_image_id = 0 /\ image_id_remap = EmptyMap
    /\ annotations = << >> /\ seen_annotation_ids = {}
    /\ next_unseen_annotation_id = 0
    /\ images_src = << >>
    /\ annotations_src = << >>
    /\ annotations_dropped = << >>

\* cococount is not running.
CountIdle ==
    /\ count_pc = "idle"
    /\ count_coco_file = [images |-> << >>, annotations |-> << >>,
                          categories |-> << >>]
    /\ stdout = None

\* The locals of cocosplit's main() before they are assigned.
SplitLocalsUnset ==
    /\ split_coco_file = [images |-> << >>, annotations |-> << >>]
    /\ blacklisted_image_ids = {}
    /\ id_map_entries = << >>

\* cocosplit is not running.
SplitIdle ==
    /\ split_pc = "idle"
    /\ split_failure = "none"
    /\ split_args = [count |-> None, offset |-> None, shuffle |-> FALSE,
                     annotated_only |-> FALSE]
    /\ blacklist_files = << >>
    /\ output_file = "none"
    /\ output_coco_file = None
    /\ SplitLocalsUnset

Init ==
    /\ pc = "load"
    /\ failure = <<"none">>
    /\ reassign_clashing_ids \in BOOLEAN
    /\ InitLocals
    /\ warnings = << >>
    /\ merged_file = None
    /\ CountIdle
    /\ SplitIdle

\* An expect panics: main() unwinds and its locals are dropped.  What the run
\* leaves behind is outside the process: the warnings already printed and
\* the output file, if any.
Panic(message) ==
    /\ pc' = "failed"
    /\ failure' = message
    /\ num_files' = 0
    /\ file_index' = 0
    /\ coco_files' = << >>
    /\ entities_read' = 0
    /\ category_set' = {} /\ category_seen_ids' = {}
    /\ next_unseen_category_id' = 0 /\ category_id_remap' = EmptyMap
    /\ license_set' = {} /\ license_seen_ids' = {}
    /\ next_unseen_license_id' = 0 /\ license_id_remap' = EmptyMap
    /\ images' = << >> /\ seen_image_ids' = {}
    /\ next_unseen_image_id' = 0 /\ image_id_remap' = EmptyMap
    /\ annotations' = << >> /\ seen_annotation_ids' = {}
    /\ next_unseen_annotation_id' = 0
    /\ images_src' = << >>
    /\ annotations_src' = << >>
    /\ annotations_dropped' = << >>
    /\ UNCHANGED <<args_vars, other_programs, warnings, merged_file>>

NextUnseenAfterButOne(id, next) == IF id > next THEN id + 1 ELSE next

\* if id >= next_unseen_id { next_unseen_id = id + 1 }: the counter of a
\* namespace after an entity was accepted under the id it came with.
NextUnseenAfter(id, next) == IF id >= next THEN id + 1 ELSE next

\* ------------------------------------------------------------ loading files
LoadingDueInLoop == pc = "load" \/ (Reaches("annotations") /\ entities_read > 0)

\* let coco_files: Vec<CocoFile> = ... .collect() is the first statement
\* after the arguments are parsed, ahead of the loop over the files.
LoadingDue == pc = "load"

\* The map over args.coco_files (at least one path): read_to_string and
\* from_str of every file, each with expect, collected before the first file
\* is reconciled.
LoadFiles ==
    /\ LoadingDue
    /\ \E ok \in BOOLEAN :
         IF ok
         THEN /\ pc' = "categories"
              /\ file_index' = 1
              /\ coco_files' = <<EmptyFile>>
              /\ UNCHANGED <<failure, args_vars, other_programs, num_files, entities_read,
                             category_vars, license_vars, image_vars,
                             annotation_vars, merged_file>>
         ELSE Panic(<<"load">>)

\* -------------------------------------------------------- categories logic
\* category_id_remap.insert(category.id(), new_category.id()) of the branch
\* that gives a clashing category a fresh id.
ReassignedCategoryRemap(remap, category, new_category) ==
    MapInsert(remap, category.id, new_category.id)

\* The body of the closure over coco_file.categories.
CategoryStep(category, set, seen, next, remap) ==
    LET found == CategorySetGet(set, category) IN
    IF found # {}
    THEN LET entry == CHOOSE e \in found : TRUE IN
         [set |-> set, seen |-> seen, next |-> next,
          remap |-> MapInsert(remap, category.id, entry.id)]
    ELSE IF category.id \in seen
    THEN LET new_category == [category EXCEPT !.id = next] IN
         [set |-> CategorySetInsert(set, new_category), seen |-> seen,
          next |-> next + 1,
          remap |-> ReassignedCategoryRemap(remap, category, new_category)]
    ELSE [set |-> CategorySetInsert(set, category),
          seen |-> seen \cup {category.id},
          next |-> NextUnseenAfter(category.id, next),
          remap |-> MapInsert(remap, category.id, category.id)]

\* One category, drawn from the set from, is read while fewer than budget
\* entities were read.
ReconcileCategoryFrom(from, budget) ==
    /\ Reaches("categories")
    /\ entities_read < budget
    /\ \E category \in from :
         LET r == CategoryStep(category, category_set, category_seen_ids,
                               next_unseen_category_id, category_id_remap) IN
         /\ category_set' = r.set
         /\ category_seen_ids' = r.seen
         /\ next_unseen_category_id' = r.next
         /\ category_id_remap' = r.remap
         /\ coco_files' = [coco_files EXCEPT ![file_index].categories =
                                                Append(@, category)]
    /\ entities_read' = entities_read + 1
    /\ UNCHANGED <<pc, failure, args_vars, other_programs, num_files, file_index, license_vars, image_vars,
                   annotation_vars, merged_file>>

ReconcileCategory == ReconcileCategoryFrom(Categories, MaxEntities)

\* ---------------------------------------------------------- licenses logic
\* license_id_remap.insert(license.id(), new_license.id()) of the branch that
\* gives a clashing license a fresh id.
ReassignedLicenseRemapOffByOne(remap, license, new_license) ==
    MapInsert(remap, license.id, new_license.id + 1)

ReassignedLicenseRemap(remap, license, new_license) ==
    MapInsert(remap, license.id, new_license.id)

\* The body of the closure over coco_file.licenses.
LicenseStep(license, set, seen, next, remap) ==
    LET found == LicenseSetGet(set, license) IN
    IF found # {}
    THEN LET entry == CHOOSE e \in found : TRUE IN
         [set |-> set, seen |-> seen, next |-> next,
          remap |-> MapInsert(remap, license.id, entry.id)]
    ELSE IF license.id \in seen
    THEN LET new_license == [license EXCEPT !.id = next] IN
         [set |-> LicenseSetInsert(set, new_license), seen |-> seen,
          next |-> next + 1,
          remap |-> ReassignedLicenseRemap(remap, license, new_license)]
    ELSE [set |-> LicenseSetInsert(set, license),
          seen |-> seen \cup {license.id},
          next |-> NextUnseenAfter(license.id, next),
          remap |-> MapInsert(remap, license.id, license.id)]

ReconcileLicense ==
    /\ Reaches("licenses")
    /\ pc' = "licenses"
    /\ entities_read < MaxEntities
    /\ \E license \in Licenses :
         LET r == LicenseStep(license, license_set, license_seen_ids,
                              next_unseen_license_id, license_id_remap) IN
         /\ license_set' = r.set
         /\ license_seen_ids' = r.seen
         /\ next_unseen_license_id' = r.next
         /\ license_id_remap' = r.remap
         /\ coco_files' = [coco_files EXCEPT ![file_index].licenses =
                                                Append(@, license)]
    /\ entities_read' = entities_read + 1
    /\ UNCHANGED <<failure, args_vars, other_programs, num_files, file_index, category_vars, image_vars,
                   annotation_vars, merged_file>>

\* ------------------------------------------------------------ images logic
\* seen_image_ids.insert(new_image.id()) after an image got a fresh id.
SeenAfterImageReassignForgotten(seen, id) == seen

SeenAfterImageReassign(seen, id) == seen \cup {id}

ReassignedImageRemapStale(remap, image, new_image) ==
    MapInsert(remap, image.id, image.id)

\* image_id_remap.insert(image.id(), new_image.id()) of the reassigning branch.
ReassignedImageRemap(remap, image, new_image) ==
    MapInsert(remap, image.id, new_image.id)

ImageIdSeenAlways(seen, id) == TRUE

\* seen_image_ids.contains(&image.id())
ImageIdSeen(seen, id) == id \in seen

LicenseLookupDueUnlessDropped(image, seen, reassign) ==
    IsSome(image.license) /\ ~(ImageIdSeen(seen, image.id) /\ ~reassign)

\* if let Some(new_license_id) = new_image.license: the lookup is made for
\* every image with a license reference, before its id is looked at.
LicenseLookupDue(image, seen, reassign) == IsSome(image.license)

ReassignClashingIdsOff(flag) == FALSE

ReassignClashingIdsOn(flag) == TRUE

\* if args.reassign_clashing_ids
ReassignClashingIds(flag) == flag

DroppedImageFatal(image, imgs, seen, next, remap) ==
    [panic |-> TRUE, blame |-> <<0, image.id>>, pushed |-> FALSE, warned |-> TRUE,
     images |-> imgs, seen |-> seen, next |-> next, remap |-> remap]

\* The else branch of the clash: the image is ignored with a warning,
\* nothing is pushed and image_id_remap gets no entry.
DroppedImage(image, imgs, seen, next, remap) ==
    [panic |-> FALSE, pushed |-> FALSE, warned |-> TRUE,
     images |-> imgs, seen |-> seen, next |-> next, remap |-> remap]

\* The body of the closure over coco_file.images: the license reference is
\* remapped first (expect panics when it is missing), then the id collision
\* is resolved.
ImageStep(image, lic_remap, imgs, seen, next, remap, reassign) ==
    IF /\ LicenseLookupDue(image, seen, reassign)
       /\ ~MapContains(lic_remap, Unwrap(image.license))
    THEN [panic |-> TRUE, blame |-> <<Unwrap(image.license), image.id>>,
          pushed |-> FALSE, warned |-> FALSE, images |-> imgs,
          seen |-> seen, next |-> next, remap |-> remap]
    ELSE
      LET new_license == IF IsSome(image.license)
                         THEN Some(lic_remap[Unwrap(image.license)])
                         ELSE None
          new_image == [image EXCEPT !.license = new_license]
      IN
      IF ImageIdSeen(seen, image.id)
      THEN IF ReassignClashingIds(reassign)
           THEN LET reassigned == [new_image EXCEPT !.id = next] IN
                [panic |-> FALSE, pushed |-> TRUE, warned |-> FALSE,
                 images |-> Append(imgs, reassigned),
                 seen |-> SeenAfterImageReassign(seen, reassigned.id),
                 next |-> next + 1,
                 remap |-> ReassignedImageRemap(remap, image, reassigned)]
           ELSE DroppedImage(image, imgs, seen, next, remap)
      ELSE [panic |-> FALSE, pushed |-> TRUE, warned |-> FALSE,
            images |-> Append(imgs, new_image),
            seen |-> seen \cup {new_image.id},
            next |-> NextUnseenAfter(new_image.id, next),
            remap |-> MapInsert(remap, image.id, new_image.id)]

\* One image, drawn from the set from, is read while fewer than budget
\* entities were read.
ReconcileImageFrom(from, budget) ==
    /\ Reaches("images")
    /\ entities_read < budget
    /\ \E image \in from :
         LET r == ImageStep(image, license_id_remap, images, seen_image_ids,
                            next_unseen_image_id, image_id_remap,
                            reassign_clashing_ids)
             position == Len(coco_files[file_index].images) + 1
         IN
         IF r.panic
         THEN Panic(<<"license", r.blame[1], r.blame[2], file_index>>)
         ELSE
           /\ pc' = "images"
           /\ images' = r.images
           /\ seen_image_ids' = r.seen
           /\ next_unseen_image_id' = r.next
           /\ image_id_remap' = r.remap
           /\ warnings' = IF r.warned
                          THEN Append(warnings, <<file_index, image.id>>)
                          ELSE warnings
           /\ images_src' = IF r.pushed
                            THEN Append(images_src, <<file_index, position>>)
                            ELSE images_src
           /\ coco_files' = [coco_files EXCEPT ![file_index].images =
                                                  Append(@, image)]
           /\ entities_read' = entities_read + 1
           /\ UNCHANGED <<failure, args_vars, other_programs, num_files, file_index,
                          category_vars, license_vars, annotation_vars,
                          merged_file>>

ReconcileImage == ReconcileImageFrom(Images, MaxEntities)

\* ------------------------------------------------------- annotations logic
\* The id resolution that every arm of the match repeats: a seen id is
\* replaced by next_unseen_annotation_id, an unseen one is kept and the
\* counter moved past it; the resulting id is recorded as seen.
AnnotationIdSeenNever(seen, id) == FALSE

AnnotationIdSeenAlways(seen, id) == TRUE

\* seen_annotation_ids.contains(&ann.id)
AnnotationIdSeen(seen, id) == id \in seen

\* seen_annotation_ids.insert(ann.id()) after the id was replaced.
SeenAfterAnnotationReassign(seen, id) == seen \cup {id}

ResolveAnnotationId(id, seen, next) ==
    IF AnnotationIdSeen(seen, id)
    THEN [id |-> next, seen |-> SeenAfterAnnotationReassign(seen, next),
          next |-> next + 1]
    ELSE [id |-> id, seen |-> seen \cup {id},
          next |-> NextUnseenAfter(id, next)]

ResolveSegmentIdApart(id, seen, next) == [id |-> id, seen |-> seen, next |-> next]

\* The id resolution of a segment: the same sets and counter as for the
\* top-level annotation ids.
ResolveSegmentId(id, seen, next) == ResolveAnnotationId(id, seen, next)

CategoryLookupKeepUnknown(cat_remap, category_id) ==
    IF MapContains(cat_remap, category_id) THEN Some(cat_remap[category_id])
    ELSE Some(category_id)

\* category_id_remap.get(&category_id); the caller's expect panics on None.
CategoryLookup(cat_remap, category_id) ==
    IF MapContains(cat_remap, category_id) THEN Some(cat_remap[category_id])
    ELSE None

\* segments_info.iter_mut().for_each: category remap (expect) and id
\* resolution of every segment, in order, from segment i on.
RECURSIVE ReconcileSegments(_, _, _, _, _)
ReconcileSegments(segments, i, cat_remap, seen, next) ==
    IF i > Len(segments)
    THEN [panic |-> FALSE, blame |-> << >>, segments |-> segments,
          seen |-> seen, next |-> next]
    ELSE IF ~IsSome(CategoryLookup(cat_remap, segments[i].category_id))
    THEN [panic |-> TRUE, blame |-> <<segments[i].category_id, segments[i].id>>,
          segments |-> segments, seen |-> seen, next |-> next]
    ELSE LET r == ResolveSegmentId(segments[i].id, seen, next)
             new_category_id == CategoryLookup(cat_remap, segments[i].category_id)
             segment == [id |-> r.id, category_id |-> Unwrap(new_category_id)]
         IN ReconcileSegments([segments EXCEPT ![i] = segment], i + 1,
                              cat_remap, r.seen, r.next)

ImageLookupKeepUnknown(img_remap, image_id) ==
    IF MapContains(img_remap, image_id) THEN Some(img_remap[image_id])
    ELSE Some(image_id)

\* image_id_remap.get(&annotation.image_id())
ImageLookup(img_remap, image_id) ==
    IF MapContains(img_remap, image_id) THEN Some(img_remap[image_id]) ELSE None

DiscardedAfterCategoryLookup(annotation, cat_remap, unchanged) ==
    IF IsSome(annotation.category_id)
       /\ ~MapContains(cat_remap, Unwrap(annotation.category_id))
    THEN [unchanged EXCEPT
            !.panic = TRUE,
            !.blame = <<Unwrap(annotation.category_id), Unwrap(annotation.id)>>]
    ELSE unchanged

\* The if-let on image_id_remap.get has no else: an annotation whose image
\* lookup fails is passed over before any of its other fields is read.
DiscardedAnnotation(annotation, cat_remap, unchanged) == unchanged

PushedUnlessReassigned(annotation, ann, anns, seen, next) ==
    [panic |-> FALSE, blame |-> << >>, pushed |-> annotation.id = ann.id,
     annotations |-> IF annotation.id = ann.id THEN Append(anns, ann) ELSE anns,
     seen |-> seen, next |-> next]

\* annotations.push(new_annotation): the last statement of the branch of an
\* annotation whose image lookup succeeded, whatever its id resolution did.
PushedAnnotation(annotation, ann, anns, seen, next) ==
    [panic |-> FALSE, blame |-> << >>, pushed |-> TRUE,
     annotations |-> Append(anns, ann), seen |-> seen, next |-> next]

\* The body of the closure over coco_file.annotations.
AnnotationStep(annotation, img_remap, cat_remap, anns, seen, next) ==
    LET unchanged == [panic |-> FALSE, blame |-> << >>, pushed |-> FALSE,
                      annotations |-> anns, seen |-> seen, next |-> next]
        new_image_id == ImageLookup(img_remap, annotation.image_id)
    IN
    IF ~IsSome(new_image_id)
    THEN DiscardedAnnotation(annotation, cat_remap, unchanged)
    ELSE
      LET with_image == [annotation EXCEPT !.image_id = Unwrap(new_image_id)]
      IN
      CASE annotation.variant \in {"KeypointDetection", "ObjectDetection", "DensePose"} ->
             IF ~IsSome(CategoryLookup(cat_remap, Unwrap(annotation.category_id)))
             THEN [unchanged EXCEPT
                     !.panic = TRUE,
                     !.blame = <<Unwrap(annotation.category_id), Unwrap(annotation.id)>>]
             ELSE LET r == ResolveAnnotationId(Unwrap(annotation.id), seen, next)
                      new_category_id ==
                          CategoryLookup(cat_remap, Unwrap(annotation.category_id))
                      ann == [with_image EXCEPT
                                !.category_id = new_category_id,
                                !.id = Some(r.id)]
                  IN PushedAnnotation(annotation, ann, anns, r.seen, r.next)
        [] annotation.variant = "PanopticSegmentation" ->
             LET r == ReconcileSegments(annotation.segments_info, 1, cat_remap,
                                        seen, next)
                 ann == [with_image EXCEPT !.segments_info = r.segments]
             IN IF r.panic
                THEN [unchanged EXCEPT !.panic = TRUE, !.blame = r.blame]
                ELSE PushedAnnotation(annotation, ann, anns, r.seen, r.next)
        [] annotation.variant = "ImageCaptioning" ->
             LET r == ResolveAnnotationId(Unwrap(annotation.id), seen, next)
                 ann == [with_image EXCEPT !.id = Some(r.id)]
             IN PushedAnnotation(annotation, ann, anns, r.seen, r.next)

\* The annotation drawn next.  An annotation whose image lookup fails is
\* discarded whatever its other fields are, so one annotation stands for all
\* those that refer to the same unknown image.
AnnotationsDrawn(from, img_remap) ==
    UNION {IF IsSome(ImageLookup(img_remap, img))
           THEN {a \in from : a.image_id = img}
           ELSE {ObjectDetectionAnnotation(0, img, 0)}
           : img \in {a.image_id : a \in from}}

\* One annotation, drawn from the set from, is read while fewer than budget
\* entities were read.
ReconcileAnnotationFrom(from, budget) ==
    /\ Reaches("annotations")
    /\ entities_read < budget
    /\ \E annotation \in AnnotationsDrawn(from, image_id_remap) :
         LET r == AnnotationStep(annotation, image_id_remap, category_id_remap,
                                 annotations, seen_annotation_ids,
                                 next_unseen_annotation_id)
         IN
         IF r.panic
         THEN Panic(<<"category", r.blame[1], r.blame[2], file_index>>)
         ELSE
           /\ pc' = "annotations"
           /\ annotations' = r.annotations
           /\ seen_annotation_ids' = r.seen
           /\ next_unseen_annotation_id' = r.next
           /\ annotations_src' = IF r.pushed
                                 THEN Append(annotations_src, <<file_index, annotation>>)
                                 ELSE annotations_src
           /\ annotations_dropped' =
                IF r.pushed THEN annotations_dropped
                ELSE Append(annotations_dropped, <<file_index, annotation>>)
           /\ entities_read' = entities_read + 1
           /\ UNCHANGED <<failure, args_vars, other_programs, num_files, file_index, coco_files,
                          category_vars, license_vars, image_vars, merged_file>>

ReconcileAnnotation == ReconcileAnnotationFrom(Annotations, MaxEntities)

NewCategoryIdRemapKept(previous) == previous

\* let mut category_id_remap = HashMap::new() inside the closure over the files.
NewCategoryIdRemap(previous) == EmptyMap

\* let mut license_id_remap = HashMap::new() inside the closure over the files.
NewLicenseIdRemap(previous) == EmptyMap

NewImageIdRemapKept(previous) == previous

\* let mut image_id_remap = HashMap::new() inside the closure over the files.
NewImageIdRemap(previous) == EmptyMap

\* The iteration over a file ends and the one over the next file starts: the three remap
\* tables of the iteration go out of scope and are created anew.  The input
\* files drawn hold at least one entity when another file follows: a file
\* without entities changes nothing but the remap tables, which the next
\* iteration creates anew anyway.
NextFileWithin(max_files) ==
    /\ Reaches("annotations")
    /\ file_index < max_files
    /\ coco_files[file_index] # EmptyFile \/ pc = "annotations"
    /\ pc' = "categories"
    /\ file_index' = file_index + 1
    /\ coco_files' = Append(coco_files, EmptyFile)
    /\ category_id_remap' = NewCategoryIdRemap(category_id_remap)
    /\ license_id_remap' = NewLicenseIdRemap(license_id_remap)
    /\ image_id_remap' = NewImageIdRemap(image_id_remap)
    /\ UNCHANGED <<failure, args_vars, other_programs, num_files, entities_read, category_set,
                   category_seen_ids, next_unseen_category_id, license_set,
                   license_seen_ids, next_unseen_license_id, images,
                   seen_image_ids, next_unseen_image_id, warnings, images_src,
                   annotation_vars, merged_file>>

NextFile == NextFileWithin(MaxFiles)

\* ---------------------------------------------------------- output assembly
\* The file was the last one: merged_file is built and written; File::create and
\* to_writer_pretty are both followed by expect.
WriteOutput ==
    /\ Reaches("annotations")
    /\ \E ok \in BOOLEAN :
         IF ok
         THEN /\ pc' = "done"
              /\ num_files' = file_index
              /\ merged_file' = Some([licenses |-> license_set,
                                      images |-> images,
                                      annotations |-> annotations,
                                      categories |-> category_set])
              /\ UNCHANGED <<failure, args_vars, other_programs, file_index, coco_files,
                             entities_read, category_vars, license_vars,
                             image_vars, annotation_vars>>
         ELSE Panic(<<"write">>)

Next ==
    \/ LoadFiles
    \/ ReconcileCategory
    \/ ReconcileLicense
    \/ ReconcileImage
    \/ ReconcileAnnotation
    \/ NextFile
    \/ WriteOutput

Spec == Init /\ [][Next]_vars

\* The runs that are given a single file.
NextSingleFile ==
    \/ LoadFiles
    \/ ReconcileCategory
    \/ ReconcileLicense
    \/ ReconcileImage
    \/ ReconcileAnnotation
    \/ WriteOutput

SpecSingleFile == Init /\ [][NextSingleFile]_vars

\* The runs that are given one file or two.
NextFileOfTwo == NextFileWithin(2)

NextTwoFiles ==
    \/ LoadFiles
    \/ ReconcileCategory
    \/ ReconcileLicense
    \/ ReconcileImage
    \/ ReconcileAnnotation
    \/ NextFileOfTwo
    \/ WriteOutput

SpecTwoFiles == Init /\ [][NextTwoFiles]_vars

\* The runs without --reassign-clashing-ids, and the runs with it.
InitReassignOff == Init /\ ~reassign_clashing_ids

SpecReassignOff == InitReassignOff /\ [][Next]_vars

InitReassignOn == Init /\ reassign_clashing_ids

SpecReassignOn == InitReassignOn /\ [][Next]_vars

\* ------------------------------------- merges around one annotation id
\* The inputs narrowed to what the shared id namespace of annotations and
\* segments is about: one category, images without license that all come
\* under id 0, and on them image captions and one-segment panoptic
\* annotations that all come under id 0.  More entities can then be read: a
\* category, an image and annotations in one file and in another.
SharedIdCategories == {c \in Categories : c.variant = "ObjectDetection" /\ c.id = 0}

SharedIdImages == {image \in Images : image.license = None /\ image.id = 0}

SharedIdAnnotations ==
    {ImageCaptioningAnnotation(0, 0),
     PanopticSegmentationAnnotation(0, <<PanopticSegmentInfo(0, 0)>>)}

SharedIdReconcileCategory == ReconcileCategoryFrom(SharedIdCategories, MaxSharedEntities)

SharedIdReconcileImage == ReconcileImageFrom(SharedIdImages, MaxSharedEntities)

SharedIdReconcileAnnotation ==
    ReconcileAnnotationFrom(SharedIdAnnotations, MaxSharedEntities)

NextSharedId ==
    \/ LoadFiles
    \/ SharedIdReconcileCategory
    \/ SharedIdReconcileImage
    \/ SharedIdReconcileAnnotation
    \/ NextFile
    \/ WriteOutput

SpecSharedId == Init /\ [][NextSharedId]_vars

\* ------------------------------------------- inputs with a fresh-id clash
\* A second specification of the same program for runs in which a category
\* that was given a fresh id meets a later category that carries that number
\* as its own id: three categories of different structure under the ids 0,
\* 0 and 1, images under id 0 without license, and annotations that refer to
\* category 1.
FreshIdCategories ==
    {c \in Categories :
        c.id = IF c.variant = "PanopticSegmentation" THEN 1 ELSE 0}

FreshIdAnnotations == {ObjectDetectionAnnotation(0, 0, 1)}

FreshIdReconcileCategory == ReconcileCategoryFrom(FreshIdCategories, MaxSharedEntities)

FreshIdReconcileImage == ReconcileImageFrom(SharedIdImages, MaxSharedEntities)

FreshIdReconcileAnnotation ==
    ReconcileAnnotationFrom(FreshIdAnnotations, MaxSharedEntities)

NextFreshId ==
    \/ LoadFiles
    \/ FreshIdReconcileCategory
    \/ FreshIdReconcileImage
    \/ FreshIdReconcileAnnotation
    \/ NextFile
    \/ WriteOutput

SpecFreshId == Init /\ [][NextFreshId]_vars

\* cocomerge is not running.
MergeIdle ==
    /\ pc = "load"
    /\ failure = <<"none">>
    /\ reassign_clashing_ids = FALSE
    /\ InitLocals
    /\ warnings = << >>
    /\ merged_file = None

\* The sequences over S of length up to n.
SeqsUpTo(S, n) == UNION {[1..k -> S] : k \in 0..n}

\* =============================================================== cococount
\* One annotation of each variant of CocoAnnotation: cococount looks at the
\* variant only.
CountAnnotations ==
    {ObjectDetectionAnnotation(0, 0, 0), KeypointDetectionAnnotation(0, 0, 0),
     PanopticSegmentationAnnotation(0, << >>), ImageCaptioningAnnotation(0, 0),
     DensePoseAnnotation(0, 0, 0)}

\* The files cococount may be given: up to MaxCountEntities images,
\* annotations and categories each.
CountFiles ==
    [images : SeqsUpTo({Image(0, None)}, MaxCountEntities),
     annotations : SeqsUpTo(CountAnnotations, MaxCountEntities),
     categories : SeqsUpTo(Categories, MaxCountEntities)]

CountInit ==
    /\ MergeIdle
    /\ SplitIdle
    /\ count_pc = "load"
    /\ count_coco_file \in CountFiles
    /\ stdout = None

\* fs::read_to_string and serde_json::from_str of args.coco_file, each with
\* expect.
CountLoad ==
    /\ count_pc = "load"
    /\ \E ok \in BOOLEAN : count_pc' = IF ok THEN "loaded" ELSE "failed"
    /\ UNCHANGED <<merge_vars, split_vars, count_coco_file, stdout>>

\* The number of elements of the sequence s whose variant is v.
VariantCount(s, v) == Cardinality({i \in DOMAIN s : s[i].variant = v})

\* The closure over coco_file.categories: the slot of categories_count that
\* the match arm of a category of variant v increments.
CategoryCountSlot(v) ==
    CASE v = "ObjectDetection" -> 0
      [] v = "PanopticSegmentation" -> 0
      [] v = "KeypointDetection" -> 0

\* categories_count after the loop over the categories.
CategoriesCount(categories) ==
    [slot \in 0..2 |->
       Cardinality({i \in DOMAIN categories :
                      CategoryCountSlot(categories[i].variant) = slot})]

\* The counting loops and the println! lines of main().
CountReport ==
    /\ count_pc = "loaded"
    /\ count_pc' = "done"
    /\ LET annotation_counts ==
              [v \in {"ObjectDetection", "KeypointDetection", "PanopticSegmentation",
                      "ImageCaptioning", "DensePose"} |->
                 VariantCount(count_coco_file.annotations, v)]
           categories_count == CategoriesCount(count_coco_file.categories)
       IN stdout' = Some(
            [Images |-> Len(count_coco_file.images),
             Annotations |-> Len(count_coco_file.annotations),
             ObjectDetectionAnnotations |-> annotation_counts["ObjectDetection"],
             KeypointDetectionAnnotations |-> annotation_counts["KeypointDetection"],
             PanopticSegmentationAnnotations |->
                 annotation_counts["PanopticSegmentation"],
             ImageCaptioningAnnotations |-> annotation_counts["ImageCaptioning"],
             DensePoseAnnotations |-> annotation_counts["DensePose"],
             Categories |-> Len(count_coco_file.categories),
             ObjectDetectionCategories |-> categories_count[0],
             PanopticSegmentationCategories |-> categories_count[1],
             KeypointDetectionCategories |-> categories_count[2]])
    /\ UNCHANGED <<merge_vars, split_vars, count_coco_file>>

CountNext ==
    \/ CountLoad
    \/ CountReport

SpecCount == CountInit /\ [][CountNext]_vars

\* =============================================================== cocosplit
\* The images and annotations of the file to split.  cocosplit reads the id
\* of an image and the image_id of an annotation and copies everything else;
\* info, categories and licenses are cloned into the output as they are and
\* are left out.
SplitImages == {Image(id, None) : id \in ImageIds}

SplitAnnotations == {ImageCaptioningAnnotation(0, img) : img \in ImageIds}

\* The files cocosplit may be given: up to MaxSplitEntities images and
\* annotations together.
SplitFiles ==
    {f \in [images : SeqsUpTo(SplitImages, MaxSplitEntities),
            annotations : SeqsUpTo(SplitAnnotations, MaxSplitEntities)] :
        Len(f.images) + Len(f.annotations) <= MaxSplitEntities}

\* The command lines clap accepts: --offset conflicts with --shuffle.
SplitArgs ==
    {a \in [count : {None, Some(0), Some(1)}, offset : {None, Some(1)},
            shuffle : BOOLEAN, annotated_only : BOOLEAN] :
        ~(a.shuffle /\ IsSome(a.offset))}

\* No, one or two blacklist files, each holding one image.
SplitBlacklists == SeqsUpTo({{id} : id \in ImageIds}, 2)

SplitInit ==
    /\ MergeIdle
    /\ CountIdle
    /\ split_pc = "load"
    /\ split_failure = "none"
    /\ split_args \in SplitArgs
    /\ split_coco_file \in SplitFiles
    /\ blacklist_files \in SplitBlacklists
    /\ output_file = "none"
    /\ output_coco_file = None
    /\ blacklisted_image_ids = {}
    /\ id_map_entries = << >>

\* An expect of cocosplit panics: main() unwinds; the output file stays as
\* it is on disk.
SplitPanic(message) ==
    /\ split_pc' = "failed"
    /\ split_failure' = message
    /\ split_coco_file' = [images |-> << >>, annotations |-> << >>]
    /\ blacklisted_image_ids' = {}
    /\ id_map_entries' = << >>
    /\ UNCHANGED <<merge_vars, count_vars, split_args, blacklist_files,
                   output_coco_file>>

\* read_to_string and from_str of args.coco_file, then File::create of
\* args.output, each with expect.
SplitLoad ==
    /\ split_pc = "load"
    /\ \E loaded, created \in BOOLEAN :
         IF ~loaded
         THEN SplitPanic("load") /\ UNCHANGED output_file
         ELSE IF ~created
         THEN SplitPanic("create") /\ UNCHANGED output_file
         ELSE /\ split_pc' = "blacklist"
              /\ output_file' = "created"
              /\ UNCHANGED <<merge_vars, count_vars, split_failure, split_args,
                             split_coco_file, blacklist_files,
                             blacklisted_image_ids, id_map_entries,
                             output_coco_file>>

\* The flat_map over args.blacklist_file: the ids of the images of every
\* blacklist file, collected into one set.
BlacklistedImageIds(files) == UNION {files[i] : i \in DOMAIN files}

SplitLoadBlacklists ==
    /\ split_pc = "blacklist"
    /\ \E ok \in BOOLEAN :
         IF ok \/ blacklist_files = << >>
         THEN /\ split_pc' = "entries"
              /\ blacklisted_image_ids' = BlacklistedImageIds(blacklist_files)
              /\ UNCHANGED <<merge_vars, count_vars, split_failure, split_args,
                             split_coco_file, blacklist_files, output_file,
                             id_map_entries, output_coco_file>>
         ELSE SplitPanic("blacklist") /\ UNCHANGED output_file

\* Every annotation of the file, whatever its image_id.
AnnotationsOnAny(file, id) == file.annotations

\* annotation_map.get(&id): the annotations of the file with that image_id.
AnnotationsOn(file, id) ==
    LET On(a) == a.image_id = id IN SelectSeq(file.annotations, On)

\* CocoFile::make_image_id_map: one IDMapEntry per image id of the file,
\* with an image that carries the id (image_map is collected from (id,
\* image) pairs, so of several images with one id a single one stays) and
\* every annotation whose image_id is the id.  The result is the set of the
\* maps that the collection may build.
MakeImageIdMap(file) ==
    LET ids == {file.images[i].id : i \in DOMAIN file.images} IN
    {[id \in ids |-> [id |-> id, image |-> file.images[pick[id]],
                       annotations |-> AnnotationsOn(file, id)]]
       : pick \in {p \in [ids -> DOMAIN file.images] :
                     \A id \in ids : file.images[p[id]].id = id}}

\* A filter that lets every id through.
NotBlacklistedAtAll(blacklisted, id) == TRUE

\* .filter(|(id, _)| !blacklisted_image_ids.contains(id))
NotBlacklisted(blacklisted, id) == id \notin blacklisted

\* The orders in which the entries under the ids may stand after
\* id_map_entries.shuffle(..) or id_map_entries.sort_by_key(|(id, _)| *id).
EntryOrders(ids, shuffle) ==
    {order \in [1..Cardinality(ids) -> ids] :
        /\ \A i, j \in DOMAIN order : i # j => order[i] # order[j]
        /\ ~shuffle => \A i, j \in DOMAIN order : i < j => order[i] < order[j]}

\* id_map, the filter on the blacklist, and the shuffle or sort.
SplitMakeEntries ==
    /\ split_pc = "entries"
    /\ split_pc' = "select"
    /\ \E id_map \in MakeImageIdMap(split_coco_file) :
         LET ids == {id \in DOMAIN id_map :
                       NotBlacklisted(blacklisted_image_ids, id)} IN
         \E order \in EntryOrders(ids, split_args.shuffle) :
             id_map_entries' = [i \in DOMAIN order |-> id_map[order[i]]]
    /\ UNCHANGED <<merge_vars, count_vars, split_failure, split_args,
                   split_coco_file, blacklist_files, output_file,
                   blacklisted_image_ids, output_coco_file>>

\* .filter(|(_, entry)| !entry.annotations.is_empty()) when
\* args.annotated_only is set.
AnnotatedOnly(entries, annotated_only) ==
    LET Annotated(entry) == entry.annotations # << >> IN
    IF annotated_only THEN SelectSeq(entries, Annotated) ELSE entries

\* len.saturating_sub(offset)
SaturatingSub(a, b) == IF a >= b THEN a - b ELSE 0

\* .skip(offset).take(output_count)
SkipTake(entries, offset, output_count) ==
    LET first == offset + 1
        last == IF offset + output_count <= Len(entries)
                THEN offset + output_count ELSE Len(entries)
    IN IF first > last THEN << >> ELSE SubSeq(entries, first, last)

\* The annotated-only filter, then offset and count.
SplitSelect ==
    /\ split_pc = "select"
    /\ split_pc' = "write"
    /\ LET entries == AnnotatedOnly(id_map_entries, split_args.annotated_only)
           offset == IF IsSome(split_args.offset) THEN Unwrap(split_args.offset)
                     ELSE 0
           output_count == IF IsSome(split_args.count) THEN Unwrap(split_args.count)
                           ELSE SaturatingSub(Len(entries), offset)
       IN id_map_entries' = SkipTake(entries, offset, output_count)
    /\ UNCHANGED <<merge_vars, count_vars, split_failure, split_args,
                   split_coco_file, blacklist_files, output_file,
                   blacklisted_image_ids, output_coco_file>>

\* The concatenation of the sequences of a sequence of sequences.
RECURSIVE Flatten(_)
Flatten(ss) == IF ss = << >> THEN << >> ELSE Head(ss) \o Flatten(Tail(ss))

\* images: the image of every selected entry.
OutputImages(entries) == [i \in DOMAIN entries |-> entries[i].image]

\* annotations: the flat_map over the selected entries of the annotations
\* of each.
OutputAnnotations(entries) ==
    Flatten([i \in DOMAIN entries |-> entries[i].annotations])

\* output_coco_file is built, with an expect on the path of every image,
\* and written with to_writer_pretty and expect.
SplitWrite ==
    /\ split_pc = "write"
    /\ \E paths_ok, written \in BOOLEAN :
         IF ~paths_ok /\ id_map_entries # << >>
         THEN SplitPanic("image path") /\ UNCHANGED output_file
         ELSE IF ~written
         THEN SplitPanic("write") /\ UNCHANGED output_file
         ELSE /\ split_pc' = "done"
              /\ output_file' = "written"
              /\ output_coco_file' =
                   Some([images |-> OutputImages(id_map_entries),
                         annotations |-> OutputAnnotations(id_map_entries)])
              /\ UNCHANGED <<merge_vars, count_vars, split_failure, split_args,
                             split_coco_file, blacklist_files,
                             blacklisted_image_ids, id_map_entries>>

SplitNext ==
    \/ SplitLoad
    \/ SplitLoadBlacklists
    \/ SplitMakeEntries
    \/ SplitSelect
    \/ SplitWrite

SpecSplit == SplitInit /\ [][SplitNext]_vars

\* ------------------------------------------------------ the merged output
Written == IsSome(merged_file)
Merged == Unwrap(merged_file)

\* The places of the output that hold an annotation id or a segment id:
\* <<i, 0>> is the id of annotations[i], <<i, k>> that of its k-th segment.
IdSlots(anns) ==
    {<<i, 0>> : i \in {j \in DOMAIN anns : IsSome(anns[j].id)}}
    \cup UNION {{<<i, k>> : k \in DOMAIN anns[i].segments_info} : i \in DOMAIN anns}

IdAt(anns, slot) ==
    IF slot[2] = 0 THEN Unwrap(anns[slot[1]].id)
    ELSE anns[slot[1]].segments_info[slot[2]].id

\* The places of the output that hold a category reference.
CategoryRefSlots(anns) ==
    {<<i, 0>> : i \in {j \in DOMAIN anns : IsSome(anns[j].category_id)}}
    \cup UNION {{<<i, k>> : k \in DOMAIN anns[i].segments_info} : i \in DOMAIN anns}

CategoryRefAt(anns, slot) ==
    IF slot[2] = 0 THEN Unwrap(anns[slot[1]].category_id)
    ELSE anns[slot[1]].segments_info[slot[2]].category_id

\* The input image that images[i] is the reconciled copy of.
SourceImage(i) == coco_files[images_src[i][1]].images[images_src[i][2]]

\* The category reference that the output place slot of annotations[i] held
\* in its source file.
SourceCategoryRefAt(i, slot) ==
    IF slot[2] = 0 THEN Unwrap(annotations_src[i][2].category_id)
    ELSE annotations_src[i][2].segments_info[slot[2]].category_id

\* ------------------------------------------------------------------ claims

\* C1: in the merged output no two images have the same id, with
\* reassign-clashing-image-ids enabled or disabled.
C1_ImageIdsDistinct ==
    Written =>
      \A i, j \in DOMAIN Merged.images :
        i # j => Merged.images[i].id # Merged.images[j].id

\* A merge was written in which an image clashed and got a fresh id, next to
\* at least one other image.
C1_Witness ==
    /\ Written
    /\ Len(Merged.images) >= 2
    /\ \E i \in DOMAIN Merged.images : Merged.images[i].id # SourceImage(i).id

C5_AnnotationImageExists ==
    Written =>
      \A i \in DOMAIN Merged.annotations :
        \E j \in DOMAIN Merged.images :
          Merged.annotations[i].image_id = Merged.images[j].id

\* A merge was written in which an annotation was retargeted to the fresh id
\* of its image.
C5_Witness ==
    /\ Written
    /\ \E i \in DOMAIN Merged.annotations :
         Merged.annotations[i].image_id # annotations_src[i][2].image_id

C3_CategoryIdsDistinct ==
    Written =>
      \A a, b \in Merged.categories : a # b => a.id # b.id

\* C4: in the merged output no two licenses have the same id.
C4_LicenseIdsDistinct ==
    Written =>
      \A a, b \in Merged.licenses : a # b => a.id # b.id

\* C8: when two merged files each declare a category equal on all non-id
\* fields under different ids, the output holds exactly one entry for that
\* category and every annotation or segment of either file that referenced
\* it carries the id of that entry.
C8_EqualCategoriesCollapse ==
    Written =>
      \A f, g \in DOMAIN coco_files :
        f < g =>
          \A a \in Range(coco_files[f].categories),
             b \in Range(coco_files[g].categories) :
            (CategoryEq(a, b) /\ a.id # b.id) =>
              LET entries == {e \in Merged.categories : CategoryEq(e, a)} IN
              /\ Cardinality(entries) = 1
              /\ \A slot \in CategoryRefSlots(Merged.annotations) :
                   LET i == slot[1]
                       file == annotations_src[i][1]
                       ref == SourceCategoryRefAt(i, slot)
                   IN ((file = f /\ ref = a.id) \/ (file = g /\ ref = b.id)) =>
                        \A e \in entries :
                          CategoryRefAt(Merged.annotations, slot) = e.id

\* C9: when two merged files each declare a license with the same name and
\* url under different ids, the output holds exactly one entry for that
\* license and every image of either file that referenced it carries the id
\* of that entry.
C9_EqualLicensesCollapse ==
    Written =>
      \A f, g \in DOMAIN coco_files :
        f < g =>
          \A a \in Range(coco_files[f].licenses),
             b \in Range(coco_files[g].licenses) :
            (LicenseEq(a, b) /\ a.id # b.id) =>
              LET entries == {e \in Merged.licenses : LicenseEq(e, a)} IN
              /\ Cardinality(entries) = 1
              /\ \A i \in DOMAIN Merged.images :
                   LET file == images_src[i][1]
                       ref == SourceImage(i).license
                   IN ((file = f /\ ref = Some(a.id)) \/ (file = g /\ ref = Some(b.id))) =>
                        \A e \in entries : Merged.images[i].license = Some(e.id)

\* C10: the hash used for the canonical-set lookup does not depend on the
\* id: a category (license) that compares equal to a canonical entry has
\* the entry's hash, so get finds the entry whatever id the probe carries.
C10_HashIgnoresId ==
    /\ \A e \in category_set, c \in Categories :
         CategoryEq(e, c) =>
           /\ CategoryHash(e) = CategoryHash(c)
           /\ CategorySetGet(category_set, c) # {}
    /\ \A e \in license_set, l \in Licenses :
         LicenseEq(e, l) =>
           /\ LicenseHash(e) = LicenseHash(l)
           /\ LicenseSetGet(license_set, l) # {}

\* ------------------------------------------------ inputs seen by a finished run
\* The annotations of the output as they were in their files.
SourceAnnotations == [i \in DOMAIN annotations_src |-> annotations_src[i][2]]

\* The number of annotations read from file f, kept or discarded.
AnnotationsRead(f) ==
    Cardinality({i \in DOMAIN annotations_src : annotations_src[i][1] = f})
    + Cardinality({i \in DOMAIN annotations_dropped : annotations_dropped[i][1] = f})

\* Within file f the ids of every namespace are pairwise distinct.
IdsDistinctWithin(f) ==
    /\ \A i, j \in DOMAIN coco_files[f].categories :
         i # j => coco_files[f].categories[i].id # coco_files[f].categories[j].id
    /\ \A i, j \in DOMAIN coco_files[f].licenses :
         i # j => coco_files[f].licenses[i].id # coco_files[f].licenses[j].id
    /\ \A i, j \in DOMAIN coco_files[f].images :
         i # j => coco_files[f].images[i].id # coco_files[f].images[j].id
    /\ \A s, t \in IdSlots(SourceAnnotations) :
         (s # t /\ annotations_src[s[1]][1] = f /\ annotations_src[t[1]][1] = f) =>
           IdAt(SourceAnnotations, s) # IdAt(SourceAnnotations, t)
    /\ \A i \in DOMAIN annotations_dropped, s \in IdSlots(SourceAnnotations) :
         (annotations_dropped[i][1] = f /\ annotations_src[s[1]][1] = f) =>
           Unwrap(annotations_dropped[i][2].id) # IdAt(SourceAnnotations, s)

\* File f declares no two categories and no two licenses that are equal on
\* their non-id fields.
NoStructuralDuplicatesWithin(f) ==
    /\ \A i, j \in DOMAIN coco_files[f].categories :
         i # j => ~CategoryEq(coco_files[f].categories[i], coco_files[f].categories[j])
    /\ \A i, j \in DOMAIN coco_files[f].licenses :
         i # j => ~LicenseEq(coco_files[f].licenses[i], coco_files[f].licenses[j])

\* Every annotation of file f has the image_id of an image of file f.
AnnotationImagesDeclaredWithin(f) ==
    LET ids == {img.id : img \in Range(coco_files[f].images)} IN
    /\ \A i \in DOMAIN annotations_src :
         annotations_src[i][1] = f => annotations_src[i][2].image_id \in ids
    /\ \A i \in DOMAIN annotations_dropped :
         annotations_dropped[i][1] = f => annotations_dropped[i][2].image_id \in ids

\* The output holds exactly the entities of file f, each as it was read.
SameAsInput(f) ==
    /\ Len(Merged.images) = Len(coco_files[f].images)
    /\ \A i \in DOMAIN Merged.images : Merged.images[i] = SourceImage(i)
    /\ Len(Merged.annotations) = AnnotationsRead(f)
    /\ \A i \in DOMAIN Merged.annotations :
         Merged.annotations[i] = annotations_src[i][2]
    /\ Cardinality(Merged.categories) = Len(coco_files[f].categories)
    /\ Merged.categories = Range(coco_files[f].categories)
    /\ Cardinality(Merged.licenses) = Len(coco_files[f].licenses)
    /\ Merged.licenses = Range(coco_files[f].licenses)

\* C11 as stated: merging any single input file alone yields an output with
\* the same images, annotations, categories and licenses as the input, the
\* same number of each, every id and every reference unchanged.
C11_SingleFileUnchanged ==
    (Written /\ num_files = 1) => SameAsInput(1)

\* C11 amended: merging a single input file whose ids are pairwise distinct
\* within every namespace, that declares no two structurally equal
\* categories or licenses and whose annotations all refer to an image of the
\* file yields, when the merge completes, an output with the same images,
\* annotations, categories and licenses, every id and reference unchanged.
C11_SingleWellFormedFileUnchanged ==
    (/\ Written /\ num_files = 1
     /\ IdsDistinctWithin(1)
     /\ NoStructuralDuplicatesWithin(1)
     /\ AnnotationImagesDeclaredWithin(1)) => SameAsInput(1)

\* A single well-formed file with a category, an image and an annotation on
\* it was merged and written.
C11_Witness ==
    /\ Written /\ num_files = 1
    /\ IdsDistinctWithin(1)
    /\ NoStructuralDuplicatesWithin(1)
    /\ AnnotationImagesDeclaredWithin(1)
    /\ Merged.categories # {}
    /\ Len(Merged.images) >= 1
    /\ \E i \in DOMAIN Merged.annotations : IsSome(Merged.annotations[i].category_id)

\* The ids file f uses in each namespace.
CategoryIdsOf(f) == {c.id : c \in Range(coco_files[f].categories)}
LicenseIdsOf(f) == {l.id : l \in Range(coco_files[f].licenses)}
ImageIdsOf(f) == {img.id : img \in Range(coco_files[f].images)}
AnnotationIdsOf(f) ==
    {IdAt(SourceAnnotations, s) :
       s \in {t \in IdSlots(SourceAnnotations) : annotations_src[t[1]][1] = f}}
    \cup {Unwrap(annotations_dropped[i][2].id) :
            i \in {j \in DOMAIN annotations_dropped : annotations_dropped[j][1] = f}}

\* Files f and g share no id in any namespace.
IdsDisjoint(f, g) ==
    /\ CategoryIdsOf(f) \cap CategoryIdsOf(g) = {}
    /\ LicenseIdsOf(f) \cap LicenseIdsOf(g) = {}
    /\ ImageIdsOf(f) \cap ImageIdsOf(g) = {}
    /\ AnnotationIdsOf(f) \cap AnnotationIdsOf(g) = {}

\* No category or license of file f is equal on its non-id fields to one of
\* file g.
NoStructuralDuplicatesAcross(f, g) ==
    /\ \A a \in Range(coco_files[f].categories), b \in Range(coco_files[g].categories) :
         ~CategoryEq(a, b)
    /\ \A a \in Range(coco_files[f].licenses), b \in Range(coco_files[g].licenses) :
         ~LicenseEq(a, b)

\* The output holds every entity of files 1 and 2 under its original id.
UnionOfInputs ==
    /\ Cardinality(Merged.categories) =
         Len(coco_files[1].categories) + Len(coco_files[2].categories)
    /\ Cardinality(Merged.licenses) =
         Len(coco_files[1].licenses) + Len(coco_files[2].licenses)
    /\ Len(Merged.images) = Len(coco_files[1].images) + Len(coco_files[2].images)
    /\ Len(Merged.annotations) = AnnotationsRead(1) + AnnotationsRead(2)
    /\ Merged.categories =
         Range(coco_files[1].categories) \cup Range(coco_files[2].categories)
    /\ Merged.licenses =
         Range(coco_files[1].licenses) \cup Range(coco_files[2].licenses)
    /\ \A i \in DOMAIN Merged.images : Merged.images[i].id = SourceImage(i).id
    /\ \A s \in IdSlots(Merged.annotations) :
         IdAt(Merged.annotations, s) = IdAt(SourceAnnotations, s)

\* C12 as stated: merging two files whose id sets are disjoint in every
\* namespace yields an output whose counts of categories, licenses, images
\* and annotations are the sums of the inputs' counts, every entity under
\* its original id.
C12_DisjointUnion ==
    (Written /\ num_files = 2 /\ IdsDisjoint(1, 2)) => UnionOfInputs

\* C12 amended: the same for two files that, in addition, each have pairwise
\* distinct ids within every namespace and only annotations that refer to an
\* image of their own file, and that declare no two structurally equal
\* categories or licenses, within a file or across the two.
C12_DisjointWellFormedUnion ==
    (/\ Written /\ num_files = 2
     /\ IdsDisjoint(1, 2)
     /\ \A f \in {1, 2} : /\ IdsDistinctWithin(f)
                          /\ NoStructuralDuplicatesWithin(f)
                          /\ AnnotationImagesDeclaredWithin(f)
     /\ NoStructuralDuplicatesAcross(1, 2)) => UnionOfInputs

\* Two well-formed files with disjoint ids, each holding an image and one of
\* them an annotation, were merged and written.
C12_Witness ==
    /\ Written /\ num_files = 2
    /\ IdsDisjoint(1, 2)
    /\ \A f \in {1, 2} : /\ IdsDistinctWithin(f)
                          /\ NoStructuralDuplicatesWithin(f)
                          /\ AnnotationImagesDeclaredWithin(f)
                          /\ coco_files[f].images # << >>
    /\ NoStructuralDuplicatesAcross(1, 2)
    /\ Len(Merged.annotations) >= 1

\* C13: with reassignment disabled, when two files each contain an image
\* with the same id, the output contains exactly one image with that id and
\* it is the first file's; no annotation of the second file that referenced
\* that id appears in the output; and a warning naming the second file and
\* the id was emitted.
C13_ClashDropsSecondImage ==
    (Written /\ ~reassign_clashing_ids) =>
      \A f, g \in DOMAIN coco_files :
        f < g =>
          \A x \in ImageIdsOf(f) \cap ImageIdsOf(g) :
            LET kept == {i \in DOMAIN Merged.images : Merged.images[i].id = x}
                first == CHOOSE h \in DOMAIN coco_files :
                           /\ x \in ImageIdsOf(h)
                           /\ \A k \in DOMAIN coco_files :
                                x \in ImageIdsOf(k) => h <= k
            IN
            /\ Cardinality(kept) = 1
            /\ \A i \in kept : /\ images_src[i][1] = first
                               /\ SourceImage(i).id = x
            /\ \A j \in DOMAIN Merged.annotations :
                 ~(annotations_src[j][1] = g /\ annotations_src[j][2].image_id = x)
            /\ \E w \in DOMAIN warnings : warnings[w] = <<g, x>>

\* Without reassignment two files with an image of the same id were merged,
\* the second file also held an annotation on that id, and the output was
\* written.
C13_Witness ==
    /\ Written /\ ~reassign_clashing_ids
    /\ num_files = 2
    /\ \E x \in ImageIdsOf(1) \cap ImageIdsOf(2) :
         \E d \in DOMAIN annotations_dropped :
           /\ annotations_dropped[d][1] = 2
           /\ annotations_dropped[d][2].image_id = x

\* The position in the output of the image that file f held at position p.
OutputIndex(f, p) == {i \in DOMAIN images_src : images_src[i] = <<f, p>>}

\* The output images that came from file f under the id x.
OutputImagesOf(f, x) ==
    {i \in DOMAIN Merged.images : images_src[i][1] = f /\ SourceImage(i).id = x}

\* C14: with reassignment enabled, when two files each contain an image with
\* the same id, the output contains both images under two distinct ids, the
\* second file's image has an id different from its original id, and every
\* annotation of the second file that referenced it has image_id equal to
\* that new id (the id of the last image of that file read under the id).
C14_ClashReassignsSecondImage ==
    (Written /\ reassign_clashing_ids) =>
      \A f, g \in DOMAIN coco_files :
        f < g =>
          \A x \in ImageIdsOf(f) \cap ImageIdsOf(g) :
            LET both == OutputImagesOf(f, x) \cup OutputImagesOf(g, x)
                last == CHOOSE i \in OutputImagesOf(g, x) :
                          \A k \in OutputImagesOf(g, x) : k <= i
            IN
            /\ \A h \in {f, g} :
                 \A p \in DOMAIN coco_files[h].images :
                   coco_files[h].images[p].id = x => OutputIndex(h, p) # {}
            /\ \A i, k \in both :
                 i # k => Merged.images[i].id # Merged.images[k].id
            /\ \A i \in OutputImagesOf(g, x) : Merged.images[i].id # x
            /\ \A d \in DOMAIN annotations_dropped :
                 ~(annotations_dropped[d][1] = g /\ annotations_dropped[d][2].image_id = x)
            /\ \A j \in DOMAIN Merged.annotations :
                 (annotations_src[j][1] = g /\ annotations_src[j][2].image_id = x) =>
                   Merged.annotations[j].image_id = Merged.images[last].id

\* With reassignment two files with an image of the same id were merged, the
\* second file also held an annotation on that id, and the output was
\* written.
C14_Witness ==
    /\ Written /\ reassign_clashing_ids
    /\ num_files = 2
    /\ \E x \in ImageIdsOf(1) \cap ImageIdsOf(2) :
         \E j \in DOMAIN Merged.annotations :
           /\ annotations_src[j][1] = 2
           /\ annotations_src[j][2].image_id = x

\* Place s of the output comes before place t: the order in which the ids
\* were resolved.
SlotBefore(s, t) == s[1] < t[1] \/ (s[1] = t[1] /\ s[2] < t[2])

\* The pairs of a segment id and a top-level annotation id of the output
\* that came from different files under the same value.
SharedIdPairs ==
    {<<s, t>> \in IdSlots(Merged.annotations) \X IdSlots(Merged.annotations) :
       /\ s[2] >= 1 /\ t[2] = 0
       /\ annotations_src[s[1]][1] # annotations_src[t[1]][1]
       /\ IdAt(SourceAnnotations, s) = IdAt(SourceAnnotations, t)}

\* annotations[j] has the image_id of an output image that came from the
\* annotation's file under the image_id the annotation had there.
OnItsImage(j) ==
    \E i \in OutputImagesOf(annotations_src[j][1], annotations_src[j][2].image_id) :
      Merged.annotations[j].image_id = Merged.images[i].id

\* C15 as stated: when a panoptic segment id in one file and a top-level
\* annotation id in another file are numerically equal, then in the output
\* exactly one of the two keeps that value, the other gets a reassigned id,
\* and each of them still has the image_id of the reconciled image it
\* referenced in its own file.
C15_SharedIdOneKeeps ==
    Written =>
      \A pair \in SharedIdPairs :
        LET s == pair[1]
            t == pair[2]
            v == IdAt(SourceAnnotations, s)
        IN
        /\ (IdAt(Merged.annotations, s) = v) # (IdAt(Merged.annotations, t) = v)
        /\ OnItsImage(s[1]) /\ OnItsImage(t[1])

\* C15 amended: when, in addition, no annotation or segment resolved before
\* the first of the two came out under that value, the one of the two that
\* is read first keeps the value, the other gets a reassigned id, and each
\* still has the image_id of the reconciled image it referenced in its file.
C15_SharedIdFirstKeeps ==
    Written =>
      \A pair \in SharedIdPairs :
        LET s == pair[1]
            t == pair[2]
            v == IdAt(SourceAnnotations, s)
            first == IF SlotBefore(s, t) THEN s ELSE t
            second == IF SlotBefore(s, t) THEN t ELSE s
        IN
        (\A u \in IdSlots(Merged.annotations) :
           SlotBefore(u, first) => IdAt(Merged.annotations, u) # v)
        => /\ IdAt(Merged.annotations, first) = v
           /\ IdAt(Merged.annotations, second) # v
           /\ OnItsImage(s[1]) /\ OnItsImage(t[1])

\* A merge was written in which a segment and a top-level annotation of
\* different files came under the same id, nothing before them having it.
C15_Witness ==
    /\ Written
    /\ \E pair \in SharedIdPairs :
         LET first == IF SlotBefore(pair[1], pair[2]) THEN pair[1] ELSE pair[2] IN
         \A u \in IdSlots(Merged.annotations) :
           SlotBefore(u, first) =>
             IdAt(Merged.annotations, u) # IdAt(SourceAnnotations, pair[1])

\* The annotations that were read and discarded, in the order of reading.
DroppedAnnotations == [i \in DOMAIN annotations_dropped |-> annotations_dropped[i][2]]

\* Every category reference of the kept annotations was declared by the file
\* the annotation came from.
KeptCategoryRefsDeclared ==
    \A slot \in CategoryRefSlots(SourceAnnotations) :
        CategoryRefAt(SourceAnnotations, slot)
            \in CategoryIdsOf(annotations_src[slot[1]][1])

\* Every category reference of the discarded annotations was declared by the
\* file the annotation came from.
DroppedCategoryRefsDeclared ==
    \A slot \in CategoryRefSlots(DroppedAnnotations) :
        CategoryRefAt(DroppedAnnotations, slot)
            \in CategoryIdsOf(annotations_dropped[slot[1]][1])

\* C16 as stated: a run in which any annotation that was read, or any of its
\* panoptic segments, names a category id its own file does not declare
\* ends in failure and writes no output; so an output is written only when
\* every annotation read, kept or discarded, names declared categories.
C16_UndeclaredCategoryAborts ==
    /\ pc = "failed" => ~Written
    /\ Written => KeptCategoryRefsDeclared /\ DroppedCategoryRefsDeclared

\* C16, amended: a run in which an annotation whose image_id has an entry in
\* its file's image remap, or one of that annotation's panoptic segments,
\* names a category id its own file does not declare ends in failure and
\* writes no output; so an output is written only when every annotation
\* that got past the image lookup names declared categories.
C16_UndeclaredCategoryOfKeptImageAborts ==
    /\ pc = "failed" => ~Written
    /\ Written => KeptCategoryRefsDeclared

\* A run that ended on the category lookup of an annotation of a second
\* file, with nothing written.
C16_Witness ==
    /\ pc = "failed"
    /\ failure[1] = "category"
    /\ failure[4] = 2
    /\ ~Written

\* C17: a run in which an image that was read, accepted or not, carries a
\* license reference its own file does not declare ends in failure and
\* writes no output; so an output is written only when every license
\* reference of every image read, the ignored clashing ones included, is
\* declared by the image's file.
C17_UndeclaredLicenseAborts ==
    /\ pc = "failed" => ~Written
    /\ Written =>
         \A f \in DOMAIN coco_files : \A p \in DOMAIN coco_files[f].images :
             IsSome(coco_files[f].images[p].license) =>
                 Unwrap(coco_files[f].images[p].license) \in LicenseIdsOf(f)

\* A run without reassignment that ended on the license lookup of an image
\* whose id had clashed before: an earlier image with that id was ignored
\* with a warning, so this one would have been ignored as well.
C17_Witness ==
    /\ pc = "failed"
    /\ ~Written
    /\ ~reassign_clashing_ids
    /\ failure[1] = "license"
    /\ \E i \in DOMAIN warnings : warnings[i][2] = failure[3]

\* A step that ends the run in failure.
Fails == pc # "failed" /\ pc' = "failed"

\* The failing step is the loading of the files.
FailsOnLoad == failure' = <<"load">> /\ pc = "load"

\* The failing step looked up a license id that the license remap of the
\* file being read did not hold.
FailsOnLicense ==
    /\ failure'[1] = "license"
    /\ ~MapContains(license_id_remap, failure'[2])

\* The failing step looked up a category id that the category remap of the
\* file being read did not hold.
FailsOnCategory ==
    /\ failure'[1] = "category"
    /\ ~MapContains(category_id_remap, failure'[2])

\* The failing step is the creation or the writing of the output file.
FailsOnWrite == failure' = <<"write">> /\ Reaches("annotations")

C19_LoadFailureBeforeReconciliation ==
    [][/\ (failure' = <<"load">> /\ failure # <<"load">>) =>
             /\ pc = "load"
             /\ InitLocals
             /\ warnings = << >>
             /\ ~Written'
       /\ failure # <<"load">>]_vars

\* A run that ended on the loading of the files, with no warning printed
\* and nothing written.
C19_Witness ==
    /\ pc = "failed"
    /\ failure = <<"load">>
    /\ warnings = << >>
    /\ ~Written

\* The number of images read from the files 1..f, accepted or not.
RECURSIVE ImagesReadUpTo(_)
ImagesReadUpTo(f) ==
    IF f = 0 THEN 0 ELSE Len(coco_files[f].images) + ImagesReadUpTo(f - 1)

\* C20: with reassignment enabled, whenever the merge completes, the output
\* holds as many images as were read from all the input files together, and
\* no image was ignored with a warning.
C20_ReassignKeepsEveryImage ==
    (Written /\ reassign_clashing_ids) =>
        /\ Len(Merged.images) = ImagesReadUpTo(Len(coco_files))
        /\ warnings = << >>

\* A completed merge with reassignment of two files whose three images all
\* carry one id: a clash within the first file and a clash across the files.
C20_Witness ==
    /\ Written
    /\ reassign_clashing_ids
    /\ Len(coco_files) = 2
    /\ Len(coco_files[1].images) = 2
    /\ Len(coco_files[2].images) = 1
    /\ coco_files[1].images[1].id = coco_files[1].images[2].id
    /\ coco_files[1].images[1].id = coco_files[2].images[1].id
    /\ Len(Merged.images) = 3

\* The place <<f, p>> comes before or is the place <<g, q>> in input order:
\* file order, then position within the file.
PlaceNotAfter(f, p, g, q) == f < g \/ (f = g /\ p <= q)

\* C21: with reassignment disabled, whenever the merge completes, the set of
\* output image ids is the set of image ids occurring over all inputs,
\* every output image has the id it had in its file, and the image kept
\* under an id is the first one carrying that id in input order.
C21_FirstSeenWins ==
    (Written /\ ~reassign_clashing_ids) =>
      /\ {Merged.images[i].id : i \in DOMAIN Merged.images}
           = UNION {ImageIdsOf(f) : f \in DOMAIN coco_files}
      /\ \A i \in DOMAIN Merged.images :
           /\ Merged.images[i].id = SourceImage(i).id
           /\ \A g \in DOMAIN coco_files : \A q \in DOMAIN coco_files[g].images :
                coco_files[g].images[q].id = SourceImage(i).id =>
                  PlaceNotAfter(images_src[i][1], images_src[i][2], g, q)

\* A completed merge without reassignment that kept images under two ids
\* and ignored a later image carrying one of them.
C21_Witness ==
    /\ Written /\ ~reassign_clashing_ids
    /\ Cardinality({Merged.images[i].id : i \in DOMAIN Merged.images}) = 2
    /\ Len(warnings) = 1

\* File f accepted an image under the id x, so that its image remap got an
\* entry for x.
ImageResolves(f, x) ==
    \E p \in DOMAIN coco_files[f].images :
        coco_files[f].images[p].id = x /\ OutputIndex(f, p) # {}

\* C22: whenever the merge completes, with or without reassignment, the
\* annotations that were discarded are those whose image_id had no entry in
\* the image remap of their file, every annotation whose image_id had one is
\* in the output once, at its place in reading order and with its variant,
\* and the output holds as many annotations as were read with a successful
\* image lookup.
C22_NoAnnotationDroppedOnIdClash ==
    Written =>
      /\ \A d \in DOMAIN annotations_dropped :
           ~ImageResolves(annotations_dropped[d][1], annotations_dropped[d][2].image_id)
      /\ \A j \in DOMAIN annotations_src :
           /\ ImageResolves(annotations_src[j][1], annotations_src[j][2].image_id)
           /\ j \in DOMAIN Merged.annotations
           /\ Merged.annotations[j].variant = annotations_src[j][2].variant
      /\ Len(Merged.annotations) = Len(annotations_src)

\* A completed merge whose output holds two annotations, one of them under
\* an id other than the one it had in its file.
C22_Witness ==
    /\ Written
    /\ Len(Merged.annotations) = 2
    /\ \E j \in DOMAIN Merged.annotations :
         /\ IsSome(Merged.annotations[j].id)
         /\ Merged.annotations[j].id # annotations_src[j][2].id

\* C25: a step that discards an annotation read one whose image_id had no
\* entry in the image remap of the file, raises no error and leaves the
\* annotation id set, next_unseen_annotation_id and the output annotation
\* list as they were; and no step fails on a category lookup while the image
\* remap of the file is empty, that is, while every annotation of the file is
\* one to discard, whatever category it names.
C25_DiscardChangesNothing ==
    [][/\ Len(annotations_dropped') > Len(annotations_dropped) =>
             /\ ~MapContains(image_id_remap,
                             annotations_dropped'[Len(annotations_dropped')][2].image_id)
             /\ pc' # "failed"
             /\ UNCHANGED <<failure, annotations, seen_annotation_ids,
                            next_unseen_annotation_id>>
       /\ (Fails /\ failure'[1] = "category") => image_id_remap # EmptyMap]_vars

\* An annotation that names a category its file does not declare was
\* discarded, and the run went on.
C25_Witness ==
    /\ pc # "failed"
    /\ \E d \in DOMAIN annotations_dropped :
         /\ IsSome(annotations_dropped[d][2].category_id)
         /\ Unwrap(annotations_dropped[d][2].category_id)
              \notin CategoryIdsOf(annotations_dropped[d][1])

\* C26: while a file is read, the category and license remaps hold entries
\* for exactly the ids that file has declared so far, whatever the other
\* files declare; and whenever the merge completes, no annotation that got
\* past the image lookup names a category id that only another file
\* declares, and no image names a license id that only another file declares.
C26_RemapsPerFile ==
    /\ pc \in {"categories", "licenses", "images", "annotations"} =>
         /\ DOMAIN category_id_remap = CategoryIdsOf(file_index)
         /\ DOMAIN license_id_remap = LicenseIdsOf(file_index)
    /\ (Written /\ num_files > 1) =>
         /\ \A slot \in CategoryRefSlots(SourceAnnotations) :
              LET f == annotations_src[slot[1]][1]
                  id == CategoryRefAt(SourceAnnotations, slot)
              IN \/ id \in CategoryIdsOf(f)
                 \/ \A g \in DOMAIN coco_files \ {f} : id \notin CategoryIdsOf(g)
         /\ \A f \in DOMAIN coco_files : \A p \in DOMAIN coco_files[f].images :
              IsSome(coco_files[f].images[p].license) =>
                LET id == Unwrap(coco_files[f].images[p].license)
                IN \/ id \in LicenseIdsOf(f)
                   \/ \A g \in DOMAIN coco_files \ {f} : id \notin LicenseIdsOf(g)

\* The second file is being read and has accepted an image, the first file
\* declared a category id and a license id that the second has not, and the
\* remaps of the second file hold neither.
C26_Witness ==
    /\ Reaches("annotations")
    /\ file_index = 2
    /\ image_id_remap # EmptyMap
    /\ \E x \in CategoryIdsOf(1) : ~MapContains(category_id_remap, x)
    /\ \E y \in LicenseIdsOf(1) : ~MapContains(license_id_remap, y)

\* Each next_unseen counter is greater than every id held by an accepted
\* entity of its namespace.
CountersAboveIdsInUse ==
    /\ \A c \in category_set : c.id < next_unseen_category_id
    /\ \A l \in license_set : l.id < next_unseen_license_id
    /\ \A i \in DOMAIN images : images[i].id < next_unseen_image_id
    /\ \A s \in IdSlots(annotations) :
         IdAt(annotations, s) < next_unseen_annotation_id

\* C27: every step of the merge that does not end the run leaves each of
\* the four next_unseen counters greater than every id held by an accepted
\* entity of its namespace (canonical categories, canonical licenses, output
\* images, output annotation and segment ids) and lowers no counter.
C27_CountersAboveIdsInUse ==
    [][pc' # "failed" =>
         /\ CountersAboveIdsInUse'
         /\ next_unseen_category_id' >= next_unseen_category_id
         /\ next_unseen_license_id' >= next_unseen_license_id
         /\ next_unseen_image_id' >= next_unseen_image_id
         /\ next_unseen_annotation_id' >= next_unseen_annotation_id]_vars

\* A category, an image and an annotation were each accepted under the id
\* their counter stood at, and each counter moved past it.
C27_Witness ==
    /\ pc # "failed"
    /\ \E c \in category_set : c.id + 1 = next_unseen_category_id
    /\ \E i \in DOMAIN images : images[i].id + 1 = next_unseen_image_id
    /\ \E s \in IdSlots(annotations) :
         IdAt(annotations, s) + 1 = next_unseen_annotation_id

\* The position of the image that the id x denotes in file f: the first
\* image of the file that carries x, the tie-break the merge itself applies
\* to images ("the image id from the first file will be used").
DenotedImage(f, x) ==
    CHOOSE p \in DOMAIN coco_files[f].images :
        /\ coco_files[f].images[p].id = x
        /\ \A q \in DOMAIN coco_files[f].images :
             coco_files[f].images[q].id = x => p <= q

\* C29: whenever the merge completes, with or without reassignment, for
\* every output annotation there is an output image under the annotation's
\* image_id, and every such image is the reconciled copy of the image that
\* the annotation's original image_id denoted in its source file: same
\* file, same position.
C29_AnnotationStaysOnItsImage ==
    Written =>
      \A j \in DOMAIN Merged.annotations :
        LET f == annotations_src[j][1]
            x == annotations_src[j][2].image_id
            on == {i \in DOMAIN Merged.images :
                     Merged.images[i].id = Merged.annotations[j].image_id}
        IN /\ on # {}
           /\ \A i \in on : images_src[i] = <<f, DenotedImage(f, x)>>

\* The category ids of every file read are pairwise distinct within the file.
CategoryIdsUniqueWithinFiles ==
    \A f \in DOMAIN coco_files : \A p, q \in DOMAIN coco_files[f].categories :
        p # q => coco_files[f].categories[p].id # coco_files[f].categories[q].id

\* The category that the id x denotes in file f.
DenotedCategory(f, x) ==
    CHOOSE c \in Range(coco_files[f].categories) : c.id = x

\* C30: whenever the merge of files with category ids unique within each
\* file completes, for every output annotation or panoptic segment with a
\* category reference, every output category under that category_id is
\* equal, on variant and non-id fields, to the category that the original
\* category_id denoted in the annotation's source file.
C30_AnnotationKeepsItsCategory ==
    (Written /\ CategoryIdsUniqueWithinFiles) =>
      \A slot \in CategoryRefSlots(Merged.annotations) :
        \A e \in Merged.categories :
          e.id = CategoryRefAt(Merged.annotations, slot) =>
            CategoryEq(e, DenotedCategory(annotations_src[slot[1]][1],
                                          SourceCategoryRefAt(slot[1], slot)))

\* C28: what cococount prints for the three category variants is, for each
\* label, the number of categories of that variant in the file, and the
\* three numbers add up to the printed total 'Categories'.
C28_CategoryCountsPerVariant ==
    count_pc = "done" =>
      LET printed == Unwrap(stdout)
          categories == count_coco_file.categories
      IN /\ printed.ObjectDetectionCategories
              = VariantCount(categories, "ObjectDetection")
         /\ printed.PanopticSegmentationCategories
              = VariantCount(categories, "PanopticSegmentation")
         /\ printed.KeypointDetectionCategories
              = VariantCount(categories, "KeypointDetection")
         /\ printed.ObjectDetectionCategories
              + printed.PanopticSegmentationCategories
              + printed.KeypointDetectionCategories = printed.Categories

\* ------------------------------------------------------------ cocosplit claims
\* How many times x stands in the sequence s.
Occurrences(s, x) == Cardinality({i \in DOMAIN s : s[i] = x})

\* cocosplit has written its output.
SplitDone == split_pc = "done" /\ IsSome(output_coco_file)

SplitOutput == Unwrap(output_coco_file)

SplitOutputImageIds ==
    {SplitOutput.images[i].id : i \in DOMAIN SplitOutput.images}

\* Neither --count nor --offset nor --annotated-only is given.
SplitUnrestricted ==
    /\ split_args.count = None
    /\ split_args.offset = None
    /\ ~split_args.annotated_only

NoBlacklistedImageInOutput ==
    SplitDone =>
        SplitOutputImageIds \cap BlacklistedImageIds(blacklist_files) = {}

\* The output holds every input image whose id is on no blacklist, as often
\* as the input does, and nothing else.
OutputIsNonBlacklistedInput ==
    \A image \in SplitImages :
        Occurrences(SplitOutput.images, image) =
            IF image.id \in BlacklistedImageIds(blacklist_files) THEN 0
            ELSE Occurrences(split_coco_file.images, image)

SplitImageIdsDistinct ==
    \A i, j \in DOMAIN split_coco_file.images :
        i # j => split_coco_file.images[i].id # split_coco_file.images[j].id

C24_AnnotationsOfSelectedImages ==
    SplitDone =>
        \A annotation \in SplitAnnotations :
            Occurrences(SplitOutput.annotations, annotation) =
                IF annotation.image_id \in SplitOutputImageIds
                THEN Occurrences(split_coco_file.annotations, annotation)
                ELSE 0

\* A split that keeps an annotated image with its annotation and leaves out
\* another image of the input that has an annotation too.
C24_Witness ==
    /\ SplitDone
    /\ SplitOutput.annotations # << >>
    /\ \E i \in DOMAIN split_coco_file.images,
          k \in DOMAIN split_coco_file.annotations :
         /\ split_coco_file.annotations[k].image_id
              = split_coco_file.images[i].id
         /\ split_coco_file.images[i].id \notin SplitOutputImageIds

====
